---- MODULE Spec2Model ----
(***************************************************************************)
(* Cosine-distance concentration demo (ArtifactCode.jsx).                  *)
(*                                                                         *)
(* The Monte Carlo component (ArtifactCode.jsx lines 1-852) is modelled as *)
(* a state machine: the async function generateSyntheticData is cut at its *)
(* statements, and its two `await new Promise(setTimeout 0)` points are    *)
(* the places where the host may run something else.  The formulaic        *)
(* components (ArtifactCode.jsx lines 854-1395 and the unnamed part_000)   *)
(* are modelled where a claim speaks of them.                              *)
(*                                                                         *)
(* Numbers.  A JavaScript number is an exact rational [n |-> num,          *)
(* d |-> den] in lowest terms with den > 0, and NaN is 0/0.  Math.sqrt is  *)
(* the one operation that rounds: to the nearest multiple of 1/SqrtScale.  *)
(* The drift of a "unit" vector's norm away from 1 comes from it, as it    *)
(* does in floating point.                                                 *)
(***************************************************************************)
EXTENDS Integers, Sequences, FiniteSets, TLC

VARIABLES
    dimensions,           \* const dimensions (line 61), the configured list
    sampleSizes,          \* getAdjustedSampleSize (lines 64-68), as a table
    pc,                   \* where generateSyntheticData stands
    dimIndex,             \* the dimension loop's index (0-based)
    batch,                \* the batch loop's index (0-based)
    i,                    \* the sample loop's index within the batch
    samples,              \* const samples = [] of the current dimension
    sumDistances,
    sumSquaredDistances,
    originalDistance,     \* what calculateCosineDistance last returned
    statistics,           \* const statistics = []
    distributionSamples,  \* const distributionSamples = {}
    data,                 \* React state `data`
    isLoading,            \* React state `isLoading`
    loadingProgress,      \* React state `loadingProgress`
    progressMessage,      \* React state `progressMessage`
    cancelRequested,      \* the host has asked the run to stop
    fnCall,               \* the last call of a pure function, with its result
    activeTab,            \* React state `activeTab`
    selectedDimensions,   \* React state `selectedDimensions`
    view,                 \* what the component's last render returned
    otherRun,             \* the locals of a second, suspended run of the effect
    batchesSinceYield     \* batches begun since the run last resumed (history)

vars == <<dimensions, sampleSizes, pc, dimIndex, batch, i, samples,
          sumDistances, sumSquaredDistances, originalDistance, statistics,
          distributionSamples, data, isLoading, loadingProgress,
          progressMessage, cancelRequested, fnCall, activeTab,
          selectedDimensions, view, otherRun, batchesSinceYield>>

\* ------------------------------------------------------------- bounds
\* Largest sample count the sample-size strategy returns in the model (the
\* code's 10000 / 20000 / 50000, scaled down).
MaxN == 3
\* Largest dimension and largest vector length the pure functions are
\* called with, and the number of steps per unit of the distances tried.
MaxDim == 5
MaxLen == 2
DistanceSteps == 4

\* ------------------------------------------------------------ numbers
\* Math.sqrt rounds to the nearest multiple of 1 / SqrtScale.
SqrtScale == 10

Abs(x) == IF x < 0 THEN -x ELSE x

RECURSIVE Gcd(_, _)
Gcd(a, b) == IF b = 0 THEN a ELSE Gcd(b, a % b)

NaN == [n |-> 0, d |-> 0]

\* the number num / den (0 / 0 is NaN; the program divides by zero only
\* when the dividend is zero too, as dimensions are positive)
Q(num, den) ==
    IF den = 0 THEN NaN
    ELSE LET g == Gcd(Abs(num), Abs(den))
             s == IF den < 0 THEN -1 ELSE 1
         IN  [n |-> s * (num \div g), d |-> s * (den \div g)]
Int2Q(k) == [n |-> k, d |-> 1]
IsNaN(a) == a.d = 0

Lcm(a, b) == (a \div Gcd(a, b)) * b
QAdd(a, b) ==
    IF IsNaN(a) \/ IsNaN(b) THEN NaN
    ELSE LET l == Lcm(a.d, b.d)
         IN  Q(a.n * (l \div a.d) + b.n * (l \div b.d), l)
QNeg(a) == [n |-> -a.n, d |-> a.d]
QSub(a, b) == QAdd(a, QNeg(b))
QMul(a, b) ==
    IF IsNaN(a) \/ IsNaN(b) THEN NaN
    ELSE LET g1 == Gcd(Abs(a.n), b.d)
             g2 == Gcd(Abs(b.n), a.d)
         IN  Q((a.n \div g1) * (b.n \div g2), (a.d \div g2) * (b.d \div g1))
QDiv(a, b) ==
    IF IsNaN(a) \/ IsNaN(b) THEN NaN
    ELSE IF b.n = 0 THEN NaN
    ELSE QMul(a, Q(b.d, b.n))
\* a < b and a <= b; every comparison with NaN is false
QLess(a, b) == ~IsNaN(a) /\ ~IsNaN(b) /\ a.n * b.d < b.n * a.d
QLeq(a, b) == ~IsNaN(a) /\ ~IsNaN(b) /\ a.n * b.d <= b.n * a.d
\* Math.min(a, b) and Math.max(a, b): NaN if either is
QMin(a, b) == IF IsNaN(a) \/ IsNaN(b) THEN NaN ELSE IF QLess(b, a) THEN b ELSE a
QMax(a, b) == IF IsNaN(a) \/ IsNaN(b) THEN NaN ELSE IF QLess(a, b) THEN b ELSE a

\* the integer nearest to the square root of the integer k >= 0
RECURSIVE RootSearch(_, _, _)
RootSearch(k, lo, hi) ==
    IF lo >= hi THEN lo
    ELSE LET mid == (lo + hi + 1) \div 2
         IN  IF mid * mid <= k
             THEN RootSearch(k, mid, hi)
             ELSE RootSearch(k, lo, mid - 1)
RoundSqrt(k) ==
    LET r == RootSearch(k, 0, IF k < 46340 THEN k ELSE 46340)
    IN  IF k - r * r > r THEN r + 1 ELSE r
\* Math.sqrt(a): NaN of NaN and of a negative number
QSqrt(a) ==
    IF IsNaN(a) \/ a.n < 0 THEN NaN
    ELSE LET whole == a.n \div a.d
             rest == a.n % a.d
             scaled == whole * SqrtScale * SqrtScale
                       + (rest * SqrtScale * SqrtScale) \div a.d
         IN  Q(RoundSqrt(scaled), SqrtScale)
\* Math.ceil(a / b) of integers, b > 0
Ceil(a, b) == -((-a) \div b)
IntMin(a, b) == IF a < b THEN a ELSE b

\* ------------------------------------------------- the pure functions
\* normalRandom(): the values the Box-Muller draw returns in the model,
\* -1.0 and 1.0.  The product sqrt(-2 ln u) * cos(2 pi v) is never exactly 0.
NormalValues == {Int2Q(-1), Int2Q(1)}

\* sumSquared of generateRandomUnitVector, over the components drawn
RECURSIVE SumSquares(_)
SumSquares(raw) ==
    IF raw = <<>> THEN Int2Q(0)
    ELSE QAdd(QMul(raw[1], raw[1]), SumSquares(Tail(raw)))

\* generateRandomUnitVector that divides by sumSquared, not by its root
generateRandomUnitVectorBySum(raw) ==
    [k \in 1..Len(raw) |-> QDiv(raw[k], SumSquares(raw))]

\* generateRandomUnitVector(dimension), given the components normalRandom
\* returned: each is divided by the magnitude
generateRandomUnitVector(raw) ==
    LET magnitude == QSqrt(SumSquares(raw))
    IN  [k \in 1..Len(raw) |-> QDiv(raw[k], magnitude)]

\* every vector generateRandomUnitVector(dim) can return
UnitVectorsOf(dim) ==
    {generateRandomUnitVector(raw) : raw \in [1..dim -> NormalValues]}

\* the dot-product loop of calculateCosineDistance: k runs over vec1, and
\* vec2[k] beyond the end of vec2 is `undefined`, NaN in a product
RECURSIVE DotProduct(_, _, _)
DotProduct(vec1, vec2, k) ==
    IF k > Len(vec1) THEN Int2Q(0)
    ELSE QAdd(IF k > Len(vec2) THEN NaN ELSE QMul(vec1[k], vec2[k]),
              DotProduct(vec1, vec2, k + 1))

\* calculateCosineDistance(vec1, vec2) = 1.0 - dotProduct.  It has no check
\* of the lengths and no throw: every call returns a number.
calculateCosineDistance(vec1, vec2) ==
    [kind |-> "return",
     value |-> QSub(Int2Q(1), DotProduct(vec1, vec2, 1))]

\* Math.max(0, Math.min(2, originalDistance))
clampedDistanceNoFloor(x) == QMin(Int2Q(2), x)
clampedDistanceOf(x) == QMax(Int2Q(0), QMin(Int2Q(2), x))

\* dim <= 3 ? Math.sqrt(dim) * 1.5 : Math.sqrt(dim), as each of the three
\* components writes it
scalingFactorBelow3(dim) ==
    IF dim < 3 THEN QMul(QSqrt(Int2Q(dim)), Q(3, 2)) ELSE QSqrt(Int2Q(dim))
scalingFactor(dim) ==
    IF dim <= 3 THEN QMul(QSqrt(Int2Q(dim)), Q(3, 2)) ELSE QSqrt(Int2Q(dim))
scalingFactorFormulaic(dim) ==
    IF dim <= 3 THEN QMul(QSqrt(Int2Q(dim)), Q(3, 2)) ELSE QSqrt(Int2Q(dim))
scalingFactorEmpirical(dim) ==
    IF dim <= 3 THEN QMul(QSqrt(Int2Q(dim)), Q(3, 2)) ELSE QSqrt(Int2Q(dim))

\* (clampedDistance - 1.0) * scalingFactor + 1.0
normalizedDistanceNoShift(clampedDistance, dim) ==
    QMul(QSub(clampedDistance, Int2Q(1)), scalingFactor(dim))
normalizedDistanceFolded(clampedDistance, dim) ==
    QAdd(QMul(IF QLess(clampedDistance, Int2Q(1))
              THEN QSub(Int2Q(1), clampedDistance)
              ELSE QSub(clampedDistance, Int2Q(1)),
              scalingFactor(dim)), Int2Q(1))
normalizedDistanceOf(clampedDistance, dim) ==
    QAdd(QMul(QSub(clampedDistance, Int2Q(1)), scalingFactor(dim)), Int2Q(1))
normalizedDistanceFormulaic(distance, dim) ==
    QAdd(QMul(QSub(distance, Int2Q(1)), scalingFactorFormulaic(dim)), Int2Q(1))
normalizedDistanceEmpirical(distance, dim) ==
    QAdd(QMul(QSub(distance, Int2Q(1)), scalingFactorEmpirical(dim)), Int2Q(1))

\* ------------------------------------------------------ configuration
\* The model's batchSize (the code's 100, scaled down with the sample counts).
BatchSize == 2
\* The model's yield period (the code's `batch % 10 === 0`, scaled down with
\* the sample counts): the run yields after every YieldEvery-th batch.
YieldEvery == 2

\* The dimension lists the model runs (the code's [2, 4, 8, ..., 2048], cut
\* after its first two entries).
DimensionLists == {<<2, 4>>}
\* Lists of two small dimensions, in both orders, for the specifications
\* that add the host's actions to the run or follow long runs.
SmallLists == {<<1, 2>>, <<2, 1>>}
ModelDims ==
    UNION {{dims[k] : k \in 1..Len(dims)} :
              dims \in DimensionLists \cup SmallLists}
DimsOf(dims) == {dims[k] : k \in 1..Len(dims)}

\* lines 97-101: what calculateCosineDistance(vector1, vector2) can return
\* for two vectors of generateRandomUnitVector(dim), per dimension
RawDistances ==
    [d \in ModelDims |->
        {calculateCosineDistance(vector1, vector2).value :
            vector1 \in UnitVectorsOf(d), vector2 \in UnitVectorsOf(d)}]

Null == [null |-> TRUE]
EmptyMap == [d \in {} |-> <<>>]
NoCall == [fn |-> "none"]

\* ---------------------------------------- generateSyntheticData, locals
dimReversed == dimensions[Len(dimensions) - dimIndex]
dim == dimensions[dimIndex + 1]
sampleSize == sampleSizes[dim]
batches == Ceil(sampleSize, BatchSize)

\* the dimension loop's test, dimIndex < dimensions.length
DimLoopStopsEarly(idx, dims) == idx < Len(dims) - 1
DimLoopContinues(idx, dims) == idx < Len(dims)

\* Math.min(batchSize, sampleSize - batch * batchSize)
FullBatchSize(n, b) == BatchSize
currentBatchSizeOf(n, b) == IntMin(BatchSize, n - b * BatchSize)

\* lines 104-114: the sample pushed for the distance calculateCosineDistance
\* returned, in dimension d
SampleFromUnclamped(distance, d) ==
    [originalDistance |-> clampedDistanceOf(distance),
     normalizedDistance |-> normalizedDistanceOf(distance, d)]
SampleOf(distance, d) ==
    LET clampedDistance == clampedDistanceOf(distance)
        normalizedDistance == normalizedDistanceOf(clampedDistance, d)
    IN  [originalDistance |-> clampedDistance,
         normalizedDistance |-> normalizedDistance]

\* line 79: (dimIndex / dimensions.length) * 100
loadingProgressRemaining(idx, dims) == Q((Len(dims) - idx) * 100, Len(dims))
loadingProgressAt(idx, dims) == Q(idx * 100, Len(dims))

\* line 122: batch % 10 === 0, with the model's period
YieldsAfterFirstOnly(b) == b = 0
YieldsAfter(b) == b % YieldEvery = 0

\* line 155: distributionSamples[dim] = samples
distributionSamplesOnly(map, d, ss) == [x \in {d} |-> ss]
distributionSamplesWith(map, d, ss) ==
    [x \in DOMAIN map \cup {d} |-> IF x = d THEN ss ELSE map[x]]

\* ------------------------------------------------------- statistics
\* the fields of the samples, in order
OriginalValues(ss) == [k \in 1..Len(ss) |-> ss[k].originalDistance]
NormalizedValues(ss) == [k \in 1..Len(ss) |-> ss[k].normalizedDistance]

\* values.reduce((sum, val) => sum + val, 0)
RECURSIVE SumOf(_)
SumOf(values) ==
    IF values = <<>> THEN Int2Q(0)
    ELSE QAdd(SumOf(SubSeq(values, 1, Len(values) - 1)), values[Len(values)])

\* the same reduce without the subtraction of the mean
RECURSIVE SumSquaredValues(_, _)
SumSquaredValues(values, mean) ==
    IF values = <<>> THEN Int2Q(0)
    ELSE LET last == values[Len(values)]
         IN  QAdd(SumSquaredValues(SubSeq(values, 1, Len(values) - 1), mean),
                  QMul(last, last))

\* values.reduce((sum, val) => sum + Math.pow(val - mean, 2), 0)
RECURSIVE SumSquaredDeviations(_, _)
SumSquaredDeviations(values, mean) ==
    IF values = <<>> THEN Int2Q(0)
    ELSE LET last == values[Len(values)]
         IN  QAdd(SumSquaredDeviations(SubSeq(values, 1, Len(values) - 1), mean),
                  QMul(QSub(last, mean), QSub(last, mean)))

\* originalMean and variance of the current dimension (lines 128-129)
originalMeanOf(sum, n) == QDiv(sum, Int2Q(n))
varianceNoMean(sumSquared, n, mean) == QDiv(sumSquared, Int2Q(n))
varianceOf(sumSquared, n, mean) ==
    QSub(QDiv(sumSquared, Int2Q(n)), QMul(mean, mean))

\* the record statistics.push stores (lines 127-152)
DimensionRecord(d, n, ss, sum, sumSquared) ==
    LET originalMean == originalMeanOf(sum, n)
        variance == varianceOf(sumSquared, n, originalMean)
        originalStd == QSqrt(variance)
        theoreticalStd == QDiv(Int2Q(1), QSqrt(Int2Q(d)))
        normalizedValues == NormalizedValues(ss)
        normalizedSum == SumOf(normalizedValues)
        normalizedMean == QDiv(normalizedSum, Int2Q(Len(normalizedValues)))
        normalizedSumSquared ==
            SumSquaredDeviations(normalizedValues, normalizedMean)
        normalizedStd ==
            QSqrt(QDiv(normalizedSumSquared, Int2Q(Len(normalizedValues))))
    IN  [dimension |-> d,
         originalMean |-> originalMean,
         originalStd |-> originalStd,
         normalizedMean |-> normalizedMean,
         normalizedStd |-> normalizedStd,
         theoreticalStd |-> theoreticalStd,
         ratio |-> QDiv(originalStd, theoreticalStd)]

\* ------------------------------------------------ generateHistogramData
\* const binCount = 40
binCount == 40

\* Math.floor(a); the floor of NaN is NaN
QFloor(a) == IF IsNaN(a) THEN NaN ELSE Int2Q(a.n \div a.d)

\* const min, const max: -2 and 4 for the normalized distances, 0 and 2 for
\* the original ones; the formulaic component takes 0 and 2 for both
histogramMin(component, normalized) ==
    IF component = "formulaic" THEN Int2Q(0)
    ELSE IF normalized THEN Int2Q(-2) ELSE Int2Q(0)
histogramMax(component, normalized) ==
    IF component = "formulaic" THEN Int2Q(2)
    ELSE IF normalized THEN Int2Q(4) ELSE Int2Q(2)
binSizeOf(component, normalized) ==
    QDiv(QSub(histogramMax(component, normalized),
              histogramMin(component, normalized)), Int2Q(binCount))

\* samples.map(s => normalized ? s.normalizedDistance : s.originalDistance)
histogramValues(ss, normalized) ==
    IF normalized THEN NormalizedValues(ss) ELSE OriginalValues(ss)

\* the value whose bin is looked up: the formulaic component first clamps
\* it into [min, max - 0.001], the other two take it as it is
binnedValue(component, normalized, val) ==
    IF component = "formulaic"
    THEN QMax(histogramMin(component, normalized),
              QMin(QSub(histogramMax(component, normalized), Q(1, 1000)), val))
    ELSE val

\* Math.floor((val - min) / binSize)
binIndexOf(component, normalized, val) ==
    QFloor(QDiv(QSub(binnedValue(component, normalized, val),
                     histogramMin(component, normalized)),
                binSizeOf(component, normalized)))

\* the bins after values.forEach: bins[binIndex]++ when
\* binIndex >= 0 && binIndex < binCount
binsOf(component, normalized, values) ==
    [b \in 0..(binCount - 1) |->
        Cardinality({k \in 1..Len(values) :
            LET binIndex == binIndexOf(component, normalized, values[k])
            IN  /\ QLeq(Int2Q(0), binIndex)
                /\ QLess(binIndex, Int2Q(binCount))
                /\ binIndex = Int2Q(b)})]

\* histograms[dim]: bins.map((count, i) => ({x, count: density}))
histogramOfCounts(component, normalized, ss) ==
    LET bins == binsOf(component, normalized, histogramValues(ss, normalized))
        min == histogramMin(component, normalized)
        binSize == binSizeOf(component, normalized)
    IN  [b \in 0..(binCount - 1) |->
            [x |-> QAdd(min, QMul(Q(2 * b + 1, 2), binSize)),
             count |-> QDiv(Int2Q(bins[b]), Int2Q(Len(ss)))]]
histogramOf(component, normalized, ss) ==
    LET bins == binsOf(component, normalized, histogramValues(ss, normalized))
        min == histogramMin(component, normalized)
        binSize == binSizeOf(component, normalized)
    IN  [b \in 0..(binCount - 1) |->
            [x |-> QAdd(min, QMul(Q(2 * b + 1, 2), binSize)),
             count |-> QDiv(QDiv(Int2Q(bins[b]), Int2Q(Len(ss))), binSize)]]

\* --------------------------------------------------- the host's state
\* useState([2, 32, 128, 512]) (line 7): the dimensions of the configured
\* list that the initial selection names
InitialSelection(dims) == SelectSeq(dims, LAMBDA d : d \in {2, 32, 128, 512})
\* the first render, before the effect runs: the loading view (lines
\* 239-289) with the initial message and progress
InitialView ==
    [kind |-> "loading",
     progressMessage |-> [text |-> "Initializing..."],
     loadingProgress |-> Int2Q(0)]
\* the effect has run once: there is no second run
NoOtherRun == [pc |-> "idle"]

\* ------------------------------------------------------------ actions
\* useState initial values (lines 5-11) and the start of the effect
InitState ==
    /\ dimIndex = 0
    /\ batch = 0
    /\ i = 0
    /\ samples = <<>>
    /\ sumDistances = Int2Q(0)
    /\ sumSquaredDistances = Int2Q(0)
    /\ originalDistance = Int2Q(0)
    /\ statistics = <<>>
    /\ distributionSamples = EmptyMap
    /\ data = Null
    /\ isLoading = TRUE
    /\ loadingProgress = Int2Q(0)
    /\ progressMessage = [text |-> "Initializing..."]
    /\ cancelRequested = FALSE
    /\ fnCall = NoCall
    /\ activeTab = "basics"
    /\ selectedDimensions = InitialSelection(dimensions)
    /\ view = InitialView
    /\ otherRun = NoOtherRun
    /\ batchesSinceYield = 0

\* The program as written: getAdjustedSampleSize returns a positive count
\* for every dimension.
Init ==
    /\ dimensions \in DimensionLists
    /\ sampleSizes \in [DimsOf(dimensions) -> 1..MaxN]
    /\ pc = "dimLoop"
    /\ InitState

\* The sample-size strategy as configuration: any count, zero and negative
\* ones included.
InitStrategy ==
    /\ dimensions \in DimensionLists
    /\ sampleSizes \in [DimsOf(dimensions) -> (-1)..MaxN]
    /\ pc = "dimLoop"
    /\ InitState

\* lines 74-82: the head of the dimension loop, up to the first await
DimensionStart ==
    /\ pc = "dimLoop"
    /\ DimLoopContinues(dimIndex, dimensions)
    /\ progressMessage' =
           [text |-> "Generating", sampleSize |-> sampleSize, dim |-> dim]
    /\ loadingProgress' = loadingProgressAt(dimIndex, dimensions)
    /\ pc' = "awaitDimension"
    /\ UNCHANGED <<dimensions, sampleSizes, dimIndex, batch, i, samples,
                   sumDistances, sumSquaredDistances, originalDistance,
                   statistics, distributionSamples, data, isLoading,
                   cancelRequested, fnCall,
                   activeTab, selectedDimensions, view, otherRun,
                   batchesSinceYield>>

\* lines 82-90: the timer fires, the accumulators of the dimension are made
ResumeDimension ==
    /\ pc = "awaitDimension"
    /\ samples' = <<>>
    /\ sumDistances' = Int2Q(0)
    /\ sumSquaredDistances' = Int2Q(0)
    /\ batch' = 0
    /\ pc' = "batchLoop"
    /\ batchesSinceYield' = 0
    /\ UNCHANGED <<dimensions, sampleSizes, dimIndex, i, originalDistance,
                   statistics, distributionSamples, data, isLoading,
                   loadingProgress, progressMessage, cancelRequested, fnCall,
                   activeTab, selectedDimensions, view, otherRun>>

\* lines 92-93: the batch loop's test holds, the batch begins
BatchStart ==
    /\ pc = "batchLoop"
    /\ batch < batches
    /\ i' = 0
    /\ pc' = "sampleLoop"
    /\ batchesSinceYield' = batchesSinceYield + 1
    /\ UNCHANGED <<dimensions, sampleSizes, dimIndex, batch, samples,
                   sumDistances, sumSquaredDistances, originalDistance,
                   statistics, distributionSamples, data, isLoading,
                   loadingProgress, progressMessage, cancelRequested, fnCall,
                   activeTab, selectedDimensions, view, otherRun>>

\* line 92: the batch loop's test fails
BatchLoopExit ==
    /\ pc = "batchLoop"
    /\ ~(batch < batches)
    /\ pc' = "statistics"
    /\ UNCHANGED <<dimensions, sampleSizes, dimIndex, batch, i, samples,
                   sumDistances, sumSquaredDistances, originalDistance,
                   statistics, distributionSamples, data, isLoading,
                   loadingProgress, progressMessage, cancelRequested, fnCall,
                   activeTab, selectedDimensions, view, otherRun,
                   batchesSinceYield>>

\* lines 95-119: one sample
Sample ==
    /\ pc = "sampleLoop"
    /\ i < currentBatchSizeOf(sampleSize, batch)
    /\ \E distance \in RawDistances[dim] :
          LET clampedDistance == SampleOf(distance, dim).originalDistance
          IN  /\ originalDistance' = distance
              /\ samples' = Append(samples, SampleOf(distance, dim))
              /\ sumDistances' = QAdd(sumDistances, clampedDistance)
              /\ sumSquaredDistances' =
                     QAdd(sumSquaredDistances,
                          QMul(clampedDistance, clampedDistance))
    /\ i' = i + 1
    /\ UNCHANGED <<dimensions, sampleSizes, pc, dimIndex, batch, statistics,
                   distributionSamples, data, isLoading, loadingProgress,
                   progressMessage, cancelRequested, fnCall,
                   activeTab, selectedDimensions, view, otherRun,
                   batchesSinceYield>>

\* lines 122-124: the batch is over and batch % 10 === 0, the run awaits
BatchEndYield ==
    /\ pc = "sampleLoop"
    /\ ~(i < currentBatchSizeOf(sampleSize, batch))
    /\ YieldsAfter(batch)
    /\ pc' = "awaitBatch"
    /\ UNCHANGED <<dimensions, sampleSizes, dimIndex, batch, i, samples,
                   sumDistances, sumSquaredDistances, originalDistance,
                   statistics, distributionSamples, data, isLoading,
                   loadingProgress, progressMessage, cancelRequested, fnCall,
                   activeTab, selectedDimensions, view, otherRun,
                   batchesSinceYield>>

\* lines 122, 92: the batch is over and the next one follows at once
BatchEndContinue ==
    /\ pc = "sampleLoop"
    /\ ~(i < currentBatchSizeOf(sampleSize, batch))
    /\ ~YieldsAfter(batch)
    /\ batch' = batch + 1
    /\ pc' = "batchLoop"
    /\ UNCHANGED <<dimensions, sampleSizes, dimIndex, i, samples,
                   sumDistances, sumSquaredDistances, originalDistance,
                   statistics, distributionSamples, data, isLoading,
                   loadingProgress, progressMessage, cancelRequested, fnCall,
                   activeTab, selectedDimensions, view, otherRun,
                   batchesSinceYield>>

\* line 123: the timer fires and the batch loop goes on
ResumeBatch ==
    /\ pc = "awaitBatch"
    /\ batch' = batch + 1
    /\ pc' = "batchLoop"
    /\ batchesSinceYield' = 0
    /\ UNCHANGED <<dimensions, sampleSizes, dimIndex, i, samples,
                   sumDistances, sumSquaredDistances, originalDistance,
                   statistics, distributionSamples, data, isLoading,
                   loadingProgress, progressMessage, cancelRequested, fnCall,
                   activeTab, selectedDimensions, view, otherRun>>

\* lines 127-156: the record and the samples of the dimension are stored
ComputeStatistics ==
    /\ pc = "statistics"
    /\ statistics' = Append(statistics,
           DimensionRecord(dim, sampleSize, samples, sumDistances,
                           sumSquaredDistances))
    /\ distributionSamples' =
           distributionSamplesWith(distributionSamples, dim, samples)
    /\ dimIndex' = dimIndex + 1
    /\ pc' = "dimLoop"
    /\ UNCHANGED <<dimensions, sampleSizes, batch, i, samples, sumDistances,
                   sumSquaredDistances, originalDistance, data, isLoading,
                   loadingProgress, progressMessage, cancelRequested, fnCall,
                   activeTab, selectedDimensions, view, otherRun,
                   batchesSinceYield>>

\* the end of the run without setIsLoading(false)
FinishStillLoading ==
    /\ pc = "dimLoop"
    /\ ~DimLoopContinues(dimIndex, dimensions)
    /\ progressMessage' = [text |-> "Finalizing visualizations..."]
    /\ data' = [dimensions |-> dimensions,
                statistics |-> statistics,
                distributionSamples |-> distributionSamples]
    /\ pc' = "done"
    /\ UNCHANGED <<dimensions, sampleSizes, dimIndex, batch, i, samples,
                   sumDistances, sumSquaredDistances, originalDistance,
                   statistics, distributionSamples, loadingProgress,
                   cancelRequested, fnCall, isLoading,
                   activeTab, selectedDimensions, view, otherRun,
                   batchesSinceYield>>

\* lines 158-167: the dimension loop is over, the result is exposed
Finish ==
    /\ pc = "dimLoop"
    /\ ~DimLoopContinues(dimIndex, dimensions)
    /\ progressMessage' = [text |-> "Finalizing visualizations..."]
    /\ data' = [dimensions |-> dimensions,
                statistics |-> statistics,
                distributionSamples |-> distributionSamples]
    /\ isLoading' = FALSE
    /\ pc' = "done"
    /\ UNCHANGED <<dimensions, sampleSizes, dimIndex, batch, i, samples,
                   sumDistances, sumSquaredDistances, originalDistance,
                   statistics, distributionSamples, loadingProgress,
                   cancelRequested, fnCall,
                   activeTab, selectedDimensions, view, otherRun,
                   batchesSinceYield>>

\* lines 57-176: while the run is suspended the host asks it to stop (the
\* component unmounts).  The effect returns no cleanup function and the run
\* reads no token, so nothing of the run changes.
Cancel ==
    /\ pc \in {"awaitDimension", "awaitBatch"}
    /\ ~cancelRequested
    /\ cancelRequested' = TRUE
    /\ UNCHANGED <<dimensions, sampleSizes, pc, dimIndex, batch, i, samples,
                   sumDistances, sumSquaredDistances, originalDistance,
                   statistics, distributionSamples, data, isLoading,
                   loadingProgress, progressMessage, fnCall,
                   activeTab, selectedDimensions, view, otherRun,
                   batchesSinceYield>>

\* getAdjustedSampleSize with the model's tiers: the largest count for the
\* first dimension of the list, one sample for the others
SmallSampleSizes(dims) ==
    [d \in DimsOf(dims) |-> IF d = dims[1] THEN MaxN ELSE 1]

InitSmall ==
    /\ dimensions = <<1, 2>>
    /\ sampleSizes = SmallSampleSizes(dimensions)
    /\ pc = "dimLoop"
    /\ InitState

\* lines 168-172: a statement of the try block throws; the catch handler
\* sets the message and ends the loading state
Throw ==
    /\ pc \in {"dimLoop", "batchLoop", "sampleLoop", "statistics"}
    /\ progressMessage' = [text |-> "Error", message |-> "thrown"]
    /\ isLoading' = FALSE
    /\ pc' = "failed"
    /\ UNCHANGED <<dimensions, sampleSizes, dimIndex, batch, i, samples,
                   sumDistances, sumSquaredDistances, originalDistance,
                   statistics, distributionSamples, data, loadingProgress,
                   cancelRequested, fnCall, activeTab, selectedDimensions,
                   view, otherRun, batchesSinceYield>>

\* [...selectedDimensions, dim].sort((a, b) => a - b)
RECURSIVE SortedSeq(_)
SortedSeq(S) ==
    IF S = {} THEN <<>>
    ELSE LET least == CHOOSE x \in S : \A y \in S : x <= y
         IN  <<least>> \o SortedSeq(S \ {least})

\* generateHistogramData, one histogram per configured dimension whatever
\* the selection is
generateHistogramDataOfAll(normalized) ==
    IF data = Null THEN EmptyMap
    ELSE [d \in DimsOf(data.dimensions) |->
             histogramOf("monteCarlo", normalized, data.distributionSamples[d])]

\* generateHistogramData that keeps the bins of a dimension it has already
\* built and hands them out again, whatever the flag
generateHistogramDataCached(normalized) ==
    IF data = Null THEN EmptyMap
    ELSE [d \in DimsOf(selectedDimensions) |->
             IF view.kind = "charts" /\ d \in DOMAIN view.originalHistograms
             THEN view.originalHistograms[d]
             ELSE histogramOf("monteCarlo", normalized,
                              data.distributionSamples[d])]

\* generateHistogramData(dimensionKey, normalized) of the Monte Carlo
\* component (lines 179-213): {} without data, else one histogram per
\* selected dimension
generateHistogramData(normalized) ==
    IF data = Null THEN EmptyMap
    ELSE [d \in DimsOf(selectedDimensions) |->
             histogramOf("monteCarlo", normalized, data.distributionSamples[d])]

\* what the component function returns (lines 239-302)
RenderedView ==
    IF isLoading
    THEN [kind |-> "loading",
          progressMessage |-> progressMessage,
          loadingProgress |-> loadingProgress]
    ELSE IF data = Null
    THEN \* line 296: data.statistics of null
         [kind |-> "error", error |-> "TypeError"]
    ELSE IF \E d \in DimsOf(selectedDimensions) :
                d \notin DOMAIN data.distributionSamples
    THEN \* line 186: samples.map of undefined
         [kind |-> "error", error |-> "TypeError"]
    ELSE [kind |-> "charts",
          activeTab |-> activeTab,
          selectedDimensions |-> selectedDimensions,
          dimensions |-> data.dimensions,
          originalHistograms |-> generateHistogramData(FALSE),
          normalizedHistograms |-> generateHistogramData(TRUE),
          stdDevData |->
              [k \in 1..Len(data.statistics) |->
                  [dimension |-> data.statistics[k].dimension,
                   empiricalStdDev |-> data.statistics[k].originalStd,
                   theoreticalStdDev |-> data.statistics[k].theoreticalStd]]]

\* React renders the component again while no code of the run is running;
\* a render that threw has unmounted the component
Render ==
    /\ pc \in {"awaitDimension", "awaitBatch", "done", "failed"}
    /\ view.kind # "error"
    /\ view' = RenderedView
    /\ view' # view
    /\ UNCHANGED <<dimensions, sampleSizes, pc, dimIndex, batch, i, samples,
                   sumDistances, sumSquaredDistances, originalDistance,
                   statistics, distributionSamples, data, isLoading,
                   loadingProgress, progressMessage, cancelRequested, fnCall,
                   activeTab, selectedDimensions, otherRun,
                   batchesSinceYield>>

\* lines 343-349: a click on the button of a dimension, with the selection
\* the rendered handler closed over
SelectionAfterClickNoLimit(selection, d) ==
    IF \E k \in 1..Len(selection) : selection[k] = d
    THEN SelectSeq(selection, LAMBDA x : x # d)
    ELSE SortedSeq(DimsOf(selection) \cup {d})
SelectionAfterClick(selection, d) ==
    IF \E k \in 1..Len(selection) : selection[k] = d
    THEN SelectSeq(selection, LAMBDA x : x # d)
    ELSE IF Len(selection) < 4
    THEN SortedSeq(DimsOf(selection) \cup {d})
    ELSE selection

ToggleDimension ==
    /\ view.kind = "charts"
    /\ \E k \in 1..Len(view.dimensions) :
          selectedDimensions' =
              SelectionAfterClick(view.selectedDimensions, view.dimensions[k])
    /\ UNCHANGED <<dimensions, sampleSizes, pc, dimIndex, batch, i, samples,
                   sumDistances, sumSquaredDistances, originalDistance,
                   statistics, distributionSamples, data, isLoading,
                   loadingProgress, progressMessage, cancelRequested, fnCall,
                   activeTab, view, otherRun, batchesSinceYield>>

\* line 324: a click on a tab
Tabs == {"basics", "problem", "solution"}
SetActiveTab ==
    /\ view.kind = "charts"
    /\ \E tab \in Tabs : activeTab' = tab
    /\ UNCHANGED <<dimensions, sampleSizes, pc, dimIndex, batch, i, samples,
                   sumDistances, sumSquaredDistances, originalDistance,
                   statistics, distributionSamples, data, isLoading,
                   loadingProgress, progressMessage, cancelRequested, fnCall,
                   selectedDimensions, view, otherRun, batchesSinceYield>>

Next ==
    \/ DimensionStart
    \/ ResumeDimension
    \/ BatchStart
    \/ BatchLoopExit
    \/ Sample
    \/ BatchEndYield
    \/ BatchEndContinue
    \/ ResumeBatch
    \/ ComputeStatistics
    \/ Finish

\* the run, and a host that may ask it to stop
NextCancel ==
    \/ Next
    \/ Cancel

\* ------------------------------------------------ a second run in flight
\* Every call of generateSyntheticData has its own locals (lines 61-93 are
\* declarations inside the function).  The variables of the model hold the
\* locals of the run whose code is running or will run next; otherRun holds
\* those of a run that is suspended at an await, or that has ended.
RunLocals ==
    [run |-> IF otherRun.pc = "idle" THEN 1 ELSE 3 - otherRun.run,
     pc |-> pc,
     dimIndex |-> dimIndex,
     batch |-> batch,
     i |-> i,
     samples |-> samples,
     sumDistances |-> sumDistances,
     sumSquaredDistances |-> sumSquaredDistances,
     originalDistance |-> originalDistance,
     statistics |-> statistics,
     distributionSamples |-> distributionSamples,
     batchesSinceYield |-> batchesSinceYield]

\* the statistics array a resumed run pushes to: the one of its own call
statisticsOfShared(run) == statistics
statisticsOf(run) == run.statistics

\* lines 57-176: the effect runs a second time (React runs the effects of a
\* component twice when it mounts in StrictMode) while the first run is
\* suspended or over; the new call starts with locals of its own
StartOtherRun ==
    /\ otherRun.pc = "idle"
    /\ pc \in {"awaitDimension", "awaitBatch", "done"}
    /\ otherRun' = RunLocals
    /\ pc' = "dimLoop"
    /\ dimIndex' = 0
    /\ batch' = 0
    /\ i' = 0
    /\ samples' = <<>>
    /\ sumDistances' = Int2Q(0)
    /\ sumSquaredDistances' = Int2Q(0)
    /\ originalDistance' = Int2Q(0)
    /\ statistics' = <<>>
    /\ distributionSamples' = EmptyMap
    /\ batchesSinceYield' = 0
    /\ UNCHANGED <<dimensions, sampleSizes, data, isLoading, loadingProgress,
                   progressMessage, cancelRequested, fnCall, activeTab,
                   selectedDimensions, view>>

\* lines 82, 123: the run whose code was running is suspended at an await
\* (or over) and the timer of the other run fires: the other run goes on
\* with its own locals
SwitchRun ==
    /\ pc \in {"awaitDimension", "awaitBatch", "done"}
    /\ otherRun.pc \in {"awaitDimension", "awaitBatch"}
    /\ otherRun' = RunLocals
    /\ pc' = otherRun.pc
    /\ dimIndex' = otherRun.dimIndex
    /\ batch' = otherRun.batch
    /\ i' = otherRun.i
    /\ samples' = otherRun.samples
    /\ sumDistances' = otherRun.sumDistances
    /\ sumSquaredDistances' = otherRun.sumSquaredDistances
    /\ originalDistance' = otherRun.originalDistance
    /\ statistics' = statisticsOf(otherRun)
    /\ distributionSamples' = otherRun.distributionSamples
    /\ batchesSinceYield' = otherRun.batchesSinceYield
    /\ UNCHANGED <<dimensions, sampleSizes, data, isLoading, loadingProgress,
                   progressMessage, cancelRequested, fnCall, activeTab,
                   selectedDimensions, view>>

\* the run with the component's renders and the user's clicks
NextHost ==
    \/ Next
    \/ Render
    \/ ToggleDimension
    \/ SetActiveTab

\* the same, where the run may fail
NextFailure ==
    \/ NextHost
    \/ Throw

Spec == Init /\ [][Next]_vars
SpecHost == InitSmall /\ [][NextHost]_vars
SpecFailure == InitSmall /\ [][NextFailure]_vars

\* the run on each of the lists of SmallLists: the same dimensions in
\* both orders
InitOrder ==
    /\ dimensions \in SmallLists
    /\ sampleSizes \in [DimsOf(dimensions) -> 1..MaxN]
    /\ pc = "dimLoop"
    /\ InitState

SpecOrder == InitOrder /\ [][Next]_vars

\* the run with a first dimension long enough for a full period of
\* batches between two yields, and one batch more
ScheduleN == BatchSize * (YieldEvery + 1) + 1

InitSchedule ==
    /\ dimensions = <<1, 2>>
    /\ sampleSizes \in {[d \in DimsOf(dimensions) |->
                            IF d = dimensions[1] THEN n ELSE 1] :
                        n \in 1..ScheduleN}
    /\ pc = "dimLoop"
    /\ InitState

SpecSchedule == InitSchedule /\ [][Next]_vars

\* ------------------------------------------------------- the fair run
\* What makes the run go on, stated on its position.  The statements of
\* generateSyntheticData between two awaits run to the next await once the
\* function runs (RunsOn).  The host runs each timer callback it has
\* scheduled, lines 82 and 123 (TimerFires).  The loops of normalRandom
\* (lines 16-17) run inside the sample of lines 95-119; a draw of 0 leaves
\* the run where it is, and the random source does return a non-zero value
\* in the end (DrawReturns).
Positions ==
    {"dimLoop", "awaitDimension", "batchLoop", "sampleLoop", "awaitBatch",
     "statistics", "done"}

RunsOn ==
    /\ \/ pc \in {"dimLoop", "batchLoop", "statistics"}
       \/ pc = "sampleLoop" /\ ~(i < currentBatchSizeOf(sampleSize, batch))
    /\ pc' \in Positions \ {pc}

TimerFires ==
    /\ pc \in {"awaitDimension", "awaitBatch"}
    /\ pc' = "batchLoop"

DrawReturns ==
    /\ pc = "sampleLoop"
    /\ i < currentBatchSizeOf(sampleSize, batch)
    /\ i' = i + 1

SpecFair ==
    /\ InitOrder
    /\ [][Next]_vars
    /\ WF_pc(RunsOn)
    /\ WF_pc(TimerFires)
    /\ WF_i(DrawReturns)

\* ------------------------------------------------ the dimension selector
\* The selector of each of the three components, with the component's own
\* list of dimensions, from the moment its result is set.
\* line 61, line 886 and part_000 line 126
MonteCarloDimensions == <<2, 4, 8, 16, 32, 64, 128, 256, 512, 1024, 2048>>
FormulaicDimensions == <<2, 3, 5, 10, 32, 64, 128, 256, 512, 1024>>
EmpiricalDimensions == <<2, 3, 5, 10, 32, 64, 128, 256, 512, 1024, 2048>>
ComponentDimensions ==
    {MonteCarloDimensions, FormulaicDimensions, EmpiricalDimensions}

\* useState([2, 32, 128, 512]): line 7, line 871, part_000 line 59
initialSelectedDimensions == <<2, 32, 128, 512>>

\* distributionSamples as the generator leaves it: a sample sequence under
\* every dimension of the list (line 155, line 929, part_000 line 155); in
\* the model each sequence holds the one sample of distance 1
LoadedSequence(d) == <<SampleOf(Int2Q(1), d)>>
LoadedSamplesButLast(dims) ==
    [d \in {dims[k] : k \in 1..(Len(dims) - 1)} |-> LoadedSequence(d)]
LoadedSamples(dims) ==
    [d \in DimsOf(dims) |-> LoadedSequence(d)]

\* the result setData receives (lines 161-165, lines 932-936, part_000
\* lines 159-163)
LoadedData(dims) ==
    [dimensions |-> dims,
     statistics |->
         [k \in 1..Len(dims) |->
             DimensionRecord(dims[k], 1, LoadedSequence(dims[k]),
                             Int2Q(1), Int2Q(1))],
     distributionSamples |-> LoadedSamples(dims)]

\* the component when its generator has ended and before React has
\* rendered the result
InitLoaded ==
    /\ dimensions \in ComponentDimensions
    /\ sampleSizes = [d \in DimsOf(dimensions) |-> 1]
    /\ pc = "done"
    /\ dimIndex = Len(dimensions)
    /\ batch = 1
    /\ i = 1
    /\ samples = LoadedSequence(dimensions[Len(dimensions)])
    /\ sumDistances = Int2Q(1)
    /\ sumSquaredDistances = Int2Q(1)
    /\ originalDistance = Int2Q(1)
    /\ statistics = LoadedData(dimensions).statistics
    /\ distributionSamples = LoadedData(dimensions).distributionSamples
    /\ data = LoadedData(dimensions)
    /\ isLoading = FALSE
    /\ loadingProgress =
           loadingProgressAt(Len(dimensions) - 1, dimensions)
    /\ progressMessage = [text |-> "Finalizing visualizations..."]
    /\ cancelRequested = FALSE
    /\ fnCall = NoCall
    /\ activeTab = "basics"
    /\ selectedDimensions = initialSelectedDimensions
    /\ view = InitialView
    /\ otherRun = NoOtherRun
    /\ batchesSinceYield = 1

\* what the render gives the selector: the buttons of data.dimensions
\* (line 335), each with a handler that closes over selectedDimensions;
\* the render throws at samples.map (line 186) when a selected dimension
\* has no samples
SelectorView ==
    IF \E d \in DimsOf(selectedDimensions) :
           d \notin DOMAIN data.distributionSamples
    THEN [kind |-> "error", error |-> "TypeError"]
    ELSE [kind |-> "charts",
          activeTab |-> activeTab,
          selectedDimensions |-> selectedDimensions,
          dimensions |-> data.dimensions]

\* React renders the component after a state update
RenderSelector ==
    /\ pc = "done"
    /\ view.kind # "error"
    /\ view' = SelectorView
    /\ view' # view
    /\ UNCHANGED <<dimensions, sampleSizes, pc, dimIndex, batch, i, samples,
                   sumDistances, sumSquaredDistances, originalDistance,
                   statistics, distributionSamples, data, isLoading,
                   loadingProgress, progressMessage, cancelRequested, fnCall,
                   activeTab, selectedDimensions, otherRun,
                   batchesSinceYield>>

\* lines 343-349: a click on the button of a dimension.  React renders
\* the update of a click before it dispatches the next event, so the
\* handler that runs is the one of the current selection.
ClickDimension ==
    /\ view.kind = "charts"
    /\ view.selectedDimensions = selectedDimensions
    /\ ToggleDimension

NextSelection ==
    \/ RenderSelector
    \/ ClickDimension

SpecSelection == InitLoaded /\ [][NextSelection]_vars

\* two runs of the effect, interleaved at their awaits
NextTwoRuns ==
    \/ Next
    \/ StartOtherRun
    \/ SwitchRun

SpecTwoRuns == InitSmall /\ [][NextTwoRuns]_vars
SpecStrategy == InitStrategy /\ [][Next]_vars
SpecCancel == Init /\ [][NextCancel]_vars

\* ------------------------------------------- calls of the pure functions
\* The functions of the components called on their own, on every input
\* within the bounds; no run is in flight.  A behaviour makes one call: the
\* functions keep no state between calls.
InitCalls ==
    /\ dimensions = <<>>
    /\ sampleSizes = EmptyMap
    /\ pc = "calls"
    /\ InitState

Coordinates == {Int2Q(-1), Int2Q(0), Int2Q(1)}
Vectors == UNION {[1..len -> Coordinates] : len \in 0..MaxLen}
\* the distances 0, 1/DistanceSteps, ..., 2
DistanceGrid == {Q(k, DistanceSteps) : k \in 0..(2 * DistanceSteps)}
Components == {"monteCarlo", "formulaic", "empirical"}

\* calculateCosineDistance(vec1, vec2), lines 43-54
CallCosineDistance ==
    /\ pc = "calls"
    /\ pc' = "called"
    /\ \E vec1 \in Vectors, vec2 \in Vectors :
          fnCall' = [fn |-> "calculateCosineDistance",
                     vec1 |-> vec1,
                     vec2 |-> vec2,
                     result |-> calculateCosineDistance(vec1, vec2)]
    /\ UNCHANGED <<dimensions, sampleSizes, dimIndex, batch, i, samples,
                   sumDistances, sumSquaredDistances, originalDistance,
                   statistics, distributionSamples, data, isLoading,
                   loadingProgress, progressMessage, cancelRequested,
                   activeTab, selectedDimensions, view, otherRun,
                   batchesSinceYield>>

\* the normalization of one distance, as each component computes it
NormalizeIn(component, distance, d) ==
    CASE component = "monteCarlo" -> normalizedDistanceOf(distance, d)
      [] component = "formulaic" -> normalizedDistanceFormulaic(distance, d)
      [] component = "empirical" -> normalizedDistanceEmpirical(distance, d)

CallNormalize ==
    /\ pc = "calls"
    /\ pc' = "called"
    /\ \E component \in Components, distance \in DistanceGrid, d \in 1..MaxDim :
          fnCall' = [fn |-> "normalize",
                     component |-> component,
                     distance |-> distance,
                     dim |-> d,
                     result |-> NormalizeIn(component, distance, d)]
    /\ UNCHANGED <<dimensions, sampleSizes, dimIndex, batch, i, samples,
                   sumDistances, sumSquaredDistances, originalDistance,
                   statistics, distributionSamples, data, isLoading,
                   loadingProgress, progressMessage, cancelRequested,
                   activeTab, selectedDimensions, view, otherRun,
                   batchesSinceYield>>

\* the dimensions and the sample lists generateHistogramData is called with:
\* up to MaxValues samples of one dimension, each the pair the component
\* builds from an original distance of the grid
MaxValues == 2
HistogramDims == {2, 16}
SamplesOf(component, d) ==
    LET pair(v) == [originalDistance |-> v,
                    normalizedDistance |-> NormalizeIn(component, v, d)]
    IN  UNION {[1..len -> {pair(v) : v \in DistanceGrid}] : len \in 1..MaxValues}

\* generateHistogramData for one selected dimension (lines 184-210)
CallHistogram ==
    /\ pc = "calls"
    /\ pc' = "called"
    /\ \E component \in Components, normalized \in BOOLEAN,
          d \in HistogramDims :
          \E ss \in SamplesOf(component, d) :
             fnCall' = [fn |-> "generateHistogramData",
                        component |-> component,
                        normalized |-> normalized,
                        samples |-> ss,
                        bins |-> binsOf(component, normalized,
                                        histogramValues(ss, normalized)),
                        histogram |-> histogramOf(component, normalized, ss)]
    /\ UNCHANGED <<dimensions, sampleSizes, dimIndex, batch, i, samples,
                   sumDistances, sumSquaredDistances, originalDistance,
                   statistics, distributionSamples, data, isLoading,
                   loadingProgress, progressMessage, cancelRequested,
                   activeTab, selectedDimensions, view, otherRun,
                   batchesSinceYield>>

\* ------------------------------------------------ the Box-Muller draws
\* Math.random() returns a number of [0, 1): in the model the multiples of
\* 1/UniformSteps, 0 among them
UniformSteps == 3
UniformValues == {Q(k, UniformSteps) : k \in 0..(UniformSteps - 1)}

\* Math.sqrt(-2 * Math.log(u)) * Math.cos(2 * Math.PI * v): Math.log(0) is
\* -Infinity and the product is infinite; for u > 0 it is a finite number,
\* which the model does not compute further
BoxMuller(u, v) ==
    IF u = Int2Q(0) THEN [kind |-> "infinite"] ELSE [kind |-> "finite"]

\* a draw of a normal variate begins.  normalRandom of the Monte Carlo
\* component (line 15) starts with u = 0 and v = 0 before its loops; the
\* formulaic component (lines 910-911) and part_000 (lines 138-139) take u1
\* and u2 from Math.random() once and go on to the logarithm
CallNormalRandom ==
    /\ pc = "calls"
    /\ pc' = "drawing"
    /\ \E component \in Components :
          IF component = "monteCarlo"
          THEN fnCall' = [fn |-> "normalRandom", component |-> component,
                          stage |-> "whileU", u |-> Int2Q(0), v |-> Int2Q(0)]
          ELSE \E u1 \in UniformValues, u2 \in UniformValues :
                  fnCall' = [fn |-> "normalRandom", component |-> component,
                             stage |-> "log", u |-> u1, v |-> u2]
    /\ UNCHANGED <<dimensions, sampleSizes, dimIndex, batch, i, samples,
                   sumDistances, sumSquaredDistances, originalDistance,
                   statistics, distributionSamples, data, isLoading,
                   loadingProgress, progressMessage, cancelRequested,
                   activeTab, selectedDimensions, view, otherRun,
                   batchesSinceYield>>

\* line 16: while (u === 0) u = Math.random(), one turn of the loop
RedrawU ==
    /\ pc = "drawing"
    /\ fnCall.stage = "whileU"
    /\ fnCall.u = Int2Q(0)
    /\ \E x \in UniformValues :
          fnCall' = [fnCall EXCEPT !.u = x,
                        !.stage = IF x = Int2Q(0) THEN "whileU" ELSE "whileV"]
    /\ UNCHANGED pc
    /\ UNCHANGED <<dimensions, sampleSizes, dimIndex, batch, i, samples,
                   sumDistances, sumSquaredDistances, originalDistance,
                   statistics, distributionSamples, data, isLoading,
                   loadingProgress, progressMessage, cancelRequested,
                   activeTab, selectedDimensions, view, otherRun,
                   batchesSinceYield>>

\* line 17: while (v === 0) v = Math.random(), one turn of the loop
RedrawV ==
    /\ pc = "drawing"
    /\ fnCall.stage = "whileV"
    /\ fnCall.v = Int2Q(0)
    /\ \E x \in UniformValues :
          fnCall' = [fnCall EXCEPT !.v = x,
                        !.stage = IF x = Int2Q(0) THEN "whileV" ELSE "log"]
    /\ UNCHANGED pc
    /\ UNCHANGED <<dimensions, sampleSizes, dimIndex, batch, i, samples,
                   sumDistances, sumSquaredDistances, originalDistance,
                   statistics, distributionSamples, data, isLoading,
                   loadingProgress, progressMessage, cancelRequested,
                   activeTab, selectedDimensions, view, otherRun,
                   batchesSinceYield>>

\* line 18 (lines 912, 140): the logarithm is taken and the variate returned
ReturnNormal ==
    /\ pc = "drawing"
    /\ fnCall.stage = "log"
    /\ fnCall' = [fn |-> "normalRandom", component |-> fnCall.component,
                  stage |-> "returned", u |-> fnCall.u, v |-> fnCall.v,
                  logArgument |-> fnCall.u,
                  result |-> BoxMuller(fnCall.u, fnCall.v)]
    /\ pc' = "called"
    /\ UNCHANGED <<dimensions, sampleSizes, dimIndex, batch, i, samples,
                   sumDistances, sumSquaredDistances, originalDistance,
                   statistics, distributionSamples, data, isLoading,
                   loadingProgress, progressMessage, cancelRequested,
                   activeTab, selectedDimensions, view, otherRun,
                   batchesSinceYield>>

\* ------------------------------------------ generateRandomUnitVector
\* what normalRandom returns to generateRandomUnitVector in these calls: the
\* non-zero halves between -2 and 2 (the product of line 18 is never
\* exactly 0: the root is positive for u in (0, 1) and the cosine of a
\* double is not 0)
NormalDraws == {Q(k, 2) : k \in (-4..4) \ {0}}

\* generateRandomUnitVector(dimension), lines 22-40, the components drawn
\* being those of `draws`
UnitVectorCall(draws) ==
    /\ pc = "calls"
    /\ pc' = "called"
    /\ \E d \in 0..MaxLen :
          \E raw \in [1..d -> draws] :
             fnCall' = [fn |-> "generateRandomUnitVector",
                        dimension |-> d,
                        raw |-> raw,
                        magnitude |-> QSqrt(SumSquares(raw)),
                        result |-> generateRandomUnitVector(raw)]
    /\ UNCHANGED <<dimensions, sampleSizes, dimIndex, batch, i, samples,
                   sumDistances, sumSquaredDistances, originalDistance,
                   statistics, distributionSamples, data, isLoading,
                   loadingProgress, progressMessage, cancelRequested,
                   activeTab, selectedDimensions, view, otherRun,
                   batchesSinceYield>>

CallUnitVector == UnitVectorCall(NormalDraws)

\* the same with a normal sampler that may return 0
CallUnitVectorOfAnyDraws == UnitVectorCall(NormalDraws \cup {Int2Q(0)})

NextCalls ==
    \/ CallUnitVector
    \/ CallCosineDistance
    \/ CallNormalize
    \/ CallHistogram
    \/ CallNormalRandom
    \/ RedrawU
    \/ RedrawV
    \/ ReturnNormal

SpecCalls == InitCalls /\ [][NextCalls]_vars

\* the calls, generateRandomUnitVector being given any draws
NextAnyDraws ==
    \/ NextCalls
    \/ CallUnitVectorOfAnyDraws

SpecAnyDraws == InitCalls /\ [][NextAnyDraws]_vars

\* ============================================================== claims

\* C1 (checked under Spec).  A result that setData exposes is complete: it
\* is exposed only when the run is over and every dimension's pass has
\* ended, it lists the configured dimensions, and it holds one record (in
\* the configured order) and one full sample sequence per dimension.
C1_ResultComplete ==
    data # Null =>
        /\ pc = "done"
        /\ dimIndex = Len(dimensions)
        /\ data.dimensions = dimensions
        /\ Len(data.statistics) = Len(dimensions)
        /\ \A k \in 1..Len(dimensions) :
              data.statistics[k].dimension = dimensions[k]
        /\ DOMAIN data.distributionSamples = DimsOf(dimensions)
        /\ \A d \in DimsOf(dimensions) :
              Len(data.distributionSamples[d]) = sampleSizes[d]
\* C1 witness: a result has been exposed.
C1_Witness == data # Null /\ Len(data.statistics) = 2

C3_CancelledRunYieldsNothing ==
    cancelRequested => (pc # "done" /\ data = Null)

\* The loop without batches that C4 compares with: n iterations, each
\* pushing one sample and adding it to the two sums.
RECURSIVE UnbatchedSums(_)
UnbatchedSums(values) ==
    IF values = <<>> THEN [count |-> 0, sum |-> Int2Q(0), sumSquared |-> Int2Q(0)]
    ELSE LET before == UnbatchedSums(SubSeq(values, 1, Len(values) - 1))
             x == values[Len(values)]
         IN  [count |-> before.count + 1,
              sum |-> QAdd(before.sum, x),
              sumSquared |-> QAdd(before.sumSquared, QMul(x, x))]

\* C4 (checked under Spec).  Batching changes nothing: every batch holds
\* between 1 and batchSize samples, the sample drawn in iteration i of batch
\* b is the (b * batchSize + i)-th of the dimension, and when the batch loop
\* ends exactly sampleSize samples are retained and the two sums are those
\* of one loop over them.
C4_BatchingEquivalent ==
    /\ pc = "sampleLoop" =>
          /\ currentBatchSizeOf(sampleSize, batch) \in 1..BatchSize
          /\ Len(samples) = batch * BatchSize + i
          /\ i <= currentBatchSizeOf(sampleSize, batch)
    /\ pc = "statistics" =>
          /\ Len(samples) = sampleSize
          /\ UnbatchedSums(OriginalValues(samples)) =
                 [count |-> sampleSize,
                  sum |-> sumDistances,
                  sumSquared |-> sumSquaredDistances]
\* C4 witness: a pass of 3 samples has ended after a full and a partial batch.
C4_Witness ==
    /\ pc = "statistics"
    /\ sampleSize = 3
    /\ batch = 2
    /\ Len(samples) = 3

InRange(x) == QLeq(Int2Q(0), x) /\ QLeq(x, Int2Q(2))

\* C5 (checked under Spec).  Every retained sample has originalDistance in
\* [0, 2], the sample last pushed holds the clamped value of what
\* calculateCosineDistance returned, and the running sum is the sum of the
\* retained (clamped) values.
C5_ClampedSamples ==
    /\ \A k \in 1..Len(samples) : InRange(samples[k].originalDistance)
    /\ \A d \in DOMAIN distributionSamples :
          \A k \in 1..Len(distributionSamples[d]) :
              InRange(distributionSamples[d][k].originalDistance)
    /\ (pc = "sampleLoop" /\ i > 0) =>
          /\ QLess(originalDistance, Int2Q(0)) =>
                 samples[Len(samples)].originalDistance = Int2Q(0)
          /\ QLess(Int2Q(2), originalDistance) =>
                 samples[Len(samples)].originalDistance = Int2Q(2)
          /\ InRange(originalDistance) =>
                 samples[Len(samples)].originalDistance = originalDistance
    /\ sumDistances = SumOf(OriginalValues(samples))
\* C5 witness: calculateCosineDistance returned less than 0 and 0 was pushed.
C5_Witness ==
    /\ pc = "sampleLoop"
    /\ i > 0
    /\ QLess(originalDistance, Int2Q(0))
    /\ samples[Len(samples)].originalDistance = Int2Q(0)

\* C6 (checked under SpecCalls).  calculateCosineDistance called with
\* vectors of different lengths fails (DimensionMismatch) and returns no
\* number.
C6_DimensionMismatchFails ==
    (/\ fnCall.fn = "calculateCosineDistance"
     /\ Len(fnCall.vec1) # Len(fnCall.vec2))
        => fnCall.result.kind = "throw"

\* C7 (checked under SpecCalls).  The normalization of the distance 1 is 1,
\* for every dimension and in every component.
C7_OneIsFixedPoint ==
    (fnCall.fn = "normalize" /\ fnCall.distance = Int2Q(1))
        => fnCall.result = Int2Q(1)
\* C7 witness: the distance 1 has been normalized in a dimension with
\* alpha = 1.5.
C7_Witness ==
    /\ fnCall.fn = "normalize"
    /\ fnCall.distance = Int2Q(1)
    /\ fnCall.dim = 3
    /\ fnCall.result = Int2Q(1)

\* (distance - 1) * sqrt(d) * alpha + 1
Rescaled(distance, d, alpha) ==
    QAdd(QMul(QMul(QSub(distance, Int2Q(1)), QSqrt(Int2Q(d))), alpha), Int2Q(1))

\* C8 (checked under SpecCalls).  The normalization is
\* (distance - 1) * sqrt(d) * 1.5 + 1 for d <= 3 and (distance - 1) * sqrt(d) + 1
\* for d >= 4, in each of the three components; normalize(2, 4) = 3 and
\* normalize(2, 1) = 2.5.
C8_CutoffBetween3And4 ==
    fnCall.fn = "normalize" =>
        /\ fnCall.dim <= 3 =>
              fnCall.result = Rescaled(fnCall.distance, fnCall.dim, Q(3, 2))
        /\ fnCall.dim >= 4 =>
              fnCall.result = Rescaled(fnCall.distance, fnCall.dim, Int2Q(1))
        /\ (fnCall.distance = Int2Q(2) /\ fnCall.dim = 4) =>
              fnCall.result = Int2Q(3)
        /\ (fnCall.distance = Int2Q(2) /\ fnCall.dim = 1) =>
              fnCall.result = Q(5, 2)
\* C8 witness: the distance 2 has been normalized in dimension 3, the last
\* with alpha = 1.5, to something other than (2 - 1) * sqrt(3) + 1.
C8_Witness ==
    /\ fnCall.fn = "normalize"
    /\ fnCall.distance = Int2Q(2)
    /\ fnCall.dim = 3
    /\ fnCall.result # Rescaled(Int2Q(2), 3, Int2Q(1))

\* Welford's online accumulator over the values, in order
RECURSIVE Welford(_)
Welford(values) ==
    IF values = <<>> THEN [count |-> 0, mean |-> Int2Q(0), m2 |-> Int2Q(0)]
    ELSE LET before == Welford(SubSeq(values, 1, Len(values) - 1))
             x == values[Len(values)]
             count == before.count + 1
             delta == QSub(x, before.mean)
             mean == QAdd(before.mean, QDiv(delta, Int2Q(count)))
         IN  [count |-> count,
              mean |-> mean,
              m2 |-> QAdd(before.m2, QMul(delta, QSub(x, mean)))]
\* its finalize(): the mean and the population standard deviation
WelfordFinalize(values) ==
    LET w == Welford(values)
    IN  [mean |-> w.mean, std |-> QSqrt(QDiv(w.m2, Int2Q(w.count)))]

\* C9 (checked under Spec).  In the result exposed, every record's
\* originalMean and originalStd are the mean and the population standard
\* deviation (M2 / n) of a Welford accumulator over the dimension's retained
\* originalDistance values, and its normalizedMean and normalizedStd those
\* over the retained normalizedDistance values.
C9_StatisticsAreWelford ==
    data # Null =>
        \A k \in 1..Len(data.statistics) :
            LET record == data.statistics[k]
                retained == data.distributionSamples[record.dimension]
                original == WelfordFinalize(OriginalValues(retained))
                normalized == WelfordFinalize(NormalizedValues(retained))
            IN  /\ Len(retained) = sampleSizes[record.dimension]
                /\ record.originalMean = original.mean
                /\ record.originalStd = original.std
                /\ record.normalizedMean = normalized.mean
                /\ record.normalizedStd = normalized.std
\* C9 witness: the result holds a record over 3 samples that are not all
\* equal.
C9_Witness ==
    /\ data # Null
    /\ \E k \in 1..Len(data.statistics) :
          /\ Len(data.distributionSamples[data.statistics[k].dimension]) = 3
          /\ QLess(Int2Q(0), data.statistics[k].originalStd)
          /\ QLess(Int2Q(0), data.statistics[k].normalizedStd)

InDomain(component, normalized, val) ==
    /\ QLeq(histogramMin(component, normalized), val)
    /\ QLess(val, histogramMax(component, normalized))
RECURSIVE SumBins(_, _)
SumBins(bins, b) == IF b < 0 THEN 0 ELSE bins[b] + SumBins(bins, b - 1)

\* C11 (checked under SpecCalls).  In each of the three components the
\* histogram builder drops every value outside [min, max) and counts every
\* value inside it once, in bin floor((value - min) / binSize); a value
\* equal to max is dropped and no value is clamped into a boundary bin.
C11_HistogramDropsOutside ==
    fnCall.fn = "generateHistogramData" =>
        LET component == fnCall.component
            normalized == fnCall.normalized
            values == histogramValues(fnCall.samples, normalized)
            min == histogramMin(component, normalized)
            binSize == binSizeOf(component, normalized)
            inside == {k \in 1..Len(values) :
                          InDomain(component, normalized, values[k])}
        IN  /\ SumBins(fnCall.bins, binCount - 1) = Cardinality(inside)
            /\ \A b \in 0..(binCount - 1) :
                  fnCall.bins[b] =
                      Cardinality({k \in inside :
                          QFloor(QDiv(QSub(values[k], min), binSize))
                              = Int2Q(b)})

\* the sum of density * binSize over the bins lo..hi
RECURSIVE SumDensity(_, _, _, _)
SumDensity(histogram, binSize, lo, hi) ==
    IF lo = hi THEN QMul(histogram[lo].count, binSize)
    ELSE LET mid == (lo + hi) \div 2
         IN  QAdd(SumDensity(histogram, binSize, lo, mid),
                  SumDensity(histogram, binSize, mid + 1, hi))

\* C12 (checked under SpecCalls).  When every sample of a histogram call
\* lies in [min, max), the bin counts add up to the number of samples and
\* the densities times the bin width add up to 1.
C12_DensityIntegratesToOne ==
    fnCall.fn = "generateHistogramData" =>
        LET component == fnCall.component
            normalized == fnCall.normalized
            values == histogramValues(fnCall.samples, normalized)
        IN  (\A k \in 1..Len(values) :
                 InDomain(component, normalized, values[k]))
            => /\ SumBins(fnCall.bins, binCount - 1) = Len(fnCall.samples)
               /\ SumDensity(fnCall.histogram,
                             binSizeOf(component, normalized),
                             0, binCount - 1) = Int2Q(1)
\* C12 witness: a histogram of the Monte Carlo component over two samples
\* inside the domain that fall in different bins.
C12_Witness ==
    /\ fnCall.fn = "generateHistogramData"
    /\ fnCall.component = "monteCarlo"
    /\ Len(fnCall.samples) = 2
    /\ \A k \in 1..2 :
          InDomain("monteCarlo", fnCall.normalized,
                   histogramValues(fnCall.samples, fnCall.normalized)[k])
    /\ \E b \in 0..(binCount - 1) : fnCall.bins[b] = 1

\* C13 (checked under SpecFailure).  When the run has failed no result is
\* exposed, and the component shows a "no data" state with the reason: it
\* renders without an error, renders no charts, and what it renders
\* carries the message the catch handler set.
C13_FailureShowsNoData ==
    pc = "failed" =>
        /\ data = Null
        /\ view.kind \notin {"charts", "error"}
        /\ RenderedView.kind # "error"
        /\ RenderedView.progressMessage = progressMessage

\* C14 (checked under SpecHost).  Once the result is set, no click on a
\* dimension or on a tab and no render changes it or starts the run again,
\* and every rendered histogram is the histogram of the retained samples of
\* a selected dimension.
C14_SelectionKeepsResult ==
    [][data # Null =>
          /\ data' = data
          /\ pc' = "done"
          /\ view'.kind = "charts" =>
                /\ DOMAIN view'.originalHistograms
                       = DimsOf(view'.selectedDimensions)
                /\ DOMAIN view'.normalizedHistograms
                       = DimsOf(view'.selectedDimensions)
                /\ \A d \in DimsOf(view'.selectedDimensions) :
                      /\ view'.originalHistograms[d] =
                            histogramOf("monteCarlo", FALSE,
                                        data.distributionSamples[d])
                      /\ view'.normalizedHistograms[d] =
                            histogramOf("monteCarlo", TRUE,
                                        data.distributionSamples[d])]_vars
\* C14 witness: after clicks on a dimension and on a tab the charts of
\* both dimensions are rendered on the third tab.
C14_Witness ==
    /\ data # Null
    /\ view.kind = "charts"
    /\ view.selectedDimensions = <<1, 2>>
    /\ view.activeTab = "solution"

\* the locals of a run hold the records and samples of that run alone: one
\* record and one sample sequence per dimension it has passed, each record
\* computed from the sample sequence stored with it
OwnLocals(r) ==
    /\ Len(r.statistics) = r.dimIndex
    /\ DOMAIN r.distributionSamples = {dimensions[k] : k \in 1..r.dimIndex}
    /\ \A k \in 1..Len(r.statistics) :
          LET d == dimensions[k]
              ss == r.distributionSamples[d]
              sums == UnbatchedSums(OriginalValues(ss))
          IN  /\ Len(ss) = sampleSizes[d]
              /\ r.statistics[k] =
                     DimensionRecord(d, sampleSizes[d], ss, sums.sum,
                                     sums.sumSquared)

\* C15 (checked under SpecTwoRuns).  Two runs in flight share no locals:
\* each accumulates into its own statistics and samples, and the data held
\* is the complete result of one run that has ended, never a mixture.
C15_RunsShareNothing ==
    /\ OwnLocals(RunLocals)
    /\ otherRun.pc # "idle" => OwnLocals(otherRun)
    /\ data # Null =>
          \E r \in {RunLocals, otherRun} :
             /\ r.pc = "done"
             /\ Len(r.statistics) = Len(dimensions)
             /\ data = [dimensions |-> dimensions,
                        statistics |-> r.statistics,
                        distributionSamples |-> r.distributionSamples]
\* C15 witness: two runs have interleaved and ended with different results,
\* and the data held is the result of the second one to end.
C15_Witness ==
    /\ pc = "done"
    /\ otherRun.pc = "done"
    /\ otherRun.statistics # statistics
    /\ data.statistics = statistics

\* the run is inside the pass of a dimension
InPass == pc \in {"awaitDimension", "batchLoop", "sampleLoop", "awaitBatch",
                  "statistics"}
\* the progress message names a dimension
NamesDimension(message) == message.text = "Generating"
\* successive progress events name successive dimensions of the list
EventsInOrder ==
    (progressMessage' # progressMessage /\ NamesDimension(progressMessage'))
    => /\ progressMessage'.dim = dimensions[dimIndex + 1]
       /\ NamesDimension(progressMessage) =>
             (dimIndex > 0 /\ progressMessage.dim = dimensions[dimIndex])

\* C16 as stated (checked under Spec).  Every progress event carries the
\* dimension being processed and a completion fraction within [0, 1]; the
\* fraction never decreases and the events follow the order of the
\* dimensions.
C16_ProgressFraction ==
    /\ [](/\ QLeq(Int2Q(0), loadingProgress)
          /\ QLeq(loadingProgress, Int2Q(1))
          /\ InPass => (NamesDimension(progressMessage)
                        /\ progressMessage.dim = dim))
    /\ [][QLeq(loadingProgress, loadingProgress') /\ EventsInOrder]_vars

\* C16 amended (checked under Spec).  Every progress event carries the
\* dimension being processed and a completion percentage within [0, 100),
\* equal to 100 * dimIndex / dimensions.length; the percentage never
\* decreases and the events follow the order of the dimensions.
C16_ProgressPercentage ==
    /\ [](/\ QLeq(Int2Q(0), loadingProgress)
          /\ QLess(loadingProgress, Int2Q(100))
          /\ InPass => /\ NamesDimension(progressMessage)
                       /\ progressMessage.dim = dim
                       /\ progressMessage.sampleSize = sampleSize
                       /\ loadingProgress = Q(100 * dimIndex, Len(dimensions)))
    /\ [][QLeq(loadingProgress, loadingProgress') /\ EventsInOrder]_vars
\* C16 witness: the second dimension is being sampled and the progress
\* stands at 50.
C16_Witness ==
    /\ pc = "sampleLoop"
    /\ dimIndex = 1
    /\ loadingProgress = Int2Q(50)
    /\ progressMessage.dim = dimensions[2]

\* every sample of the sequence ss is the pair of dimension d: its
\* normalized distance is the transform of its own stored original distance
PairsOf(ss, d) ==
    \A k \in 1..Len(ss) :
        ss[k].normalizedDistance =
            QAdd(QMul(QSub(ss[k].originalDistance, Int2Q(1)), scalingFactor(d)),
                 Int2Q(1))

\* C17 (checked under Spec).  Every retained sample of dimension d, in the
\* pass under way, in the stored sequences and in the exposed result, holds
\* the normalization of its own stored (clamped) original distance with the
\* scale factor of d.
C17_SamplePairs ==
    /\ pc \in {"batchLoop", "sampleLoop", "awaitBatch", "statistics"}
          => PairsOf(samples, dim)
    /\ \A d \in DOMAIN distributionSamples : PairsOf(distributionSamples[d], d)
    /\ data # Null =>
          \A d \in DOMAIN data.distributionSamples :
              PairsOf(data.distributionSamples[d], d)
\* C17 witness: a distance above 2 was returned and the sample pushed for
\* it holds 2 and the normalization of 2, not that of the distance.
C17_Witness ==
    /\ pc = "sampleLoop"
    /\ Len(samples) > 0
    /\ QLess(Int2Q(2), originalDistance)
    /\ samples[Len(samples)].originalDistance = Int2Q(2)
    /\ samples[Len(samples)].normalizedDistance
           # normalizedDistanceOf(originalDistance, dim)

\* a step keeps the order of the batches and of the dimensions
OrderedStep ==
    /\ (batch' # batch) =>
          \/ /\ batch' = batch + 1
             /\ pc \in {"sampleLoop", "awaitBatch"}
             /\ i = currentBatchSizeOf(sampleSize, batch)
             /\ Len(samples) = IntMin(sampleSize, batch' * BatchSize)
          \/ /\ batch' = 0
             /\ pc = "awaitDimension"
    /\ (dimIndex' # dimIndex) =>
          /\ dimIndex' = dimIndex + 1
          /\ Len(statistics') = dimIndex'
          /\ statistics'[dimIndex'].dimension = dim
          /\ distributionSamples'[dim] = samples

\* C18 (checked under SpecOrder, the same dimensions in both orders).  The
\* records follow the configured order; a batch starts only when the one
\* before it is complete and a dimension only when the record and samples
\* of the one before it are stored; and the record of a dimension is
\* computed from the samples drawn for that dimension alone, wherever the
\* dimension stands in the list.
C18_ConfiguredOrder ==
    /\ [](/\ Len(statistics) = dimIndex
          /\ DOMAIN distributionSamples = {dimensions[k] : k \in 1..dimIndex}
          /\ \A k \in 1..Len(statistics) :
                LET d == dimensions[k]
                    ss == distributionSamples[d]
                    sums == UnbatchedSums(OriginalValues(ss))
                IN  /\ statistics[k].dimension = d
                    /\ statistics[k] =
                           DimensionRecord(d, sampleSizes[d], ss, sums.sum,
                                           sums.sumSquared))
    /\ [][OrderedStep]_vars
\* C18 witness: the list [2, 1] has been run to its end with 3 samples per
\* dimension.
C18_Witness ==
    /\ dimensions = <<2, 1>>
    /\ data # Null
    /\ data.statistics[1].dimension = 2
    /\ data.statistics[2].dimension = 1
    /\ \A d \in {1, 2} : Len(data.distributionSamples[d]) = 3

\* a step of the run suspends it only where the code awaits: at the head of
\* a dimension, or after the last sample of a batch
SuspendsAtBoundary ==
    /\ (pc' = "awaitBatch" /\ pc # "awaitBatch") =>
          /\ pc = "sampleLoop"
          /\ i = currentBatchSizeOf(sampleSize, batch)
          /\ Len(samples) = IntMin(sampleSize, (batch + 1) * BatchSize)
    /\ (pc' = "awaitDimension" /\ pc # "awaitDimension") =>
          /\ pc = "dimLoop"
          /\ Len(statistics) = dimIndex
    /\ (pc = "dimLoop" /\ pc' \notin {"dimLoop", "done"}) =>
          pc' = "awaitDimension"
    /\ (pc' = "batchLoop" /\ batch' = 0 /\ pc # "batchLoop") =>
          pc = "awaitDimension"

\* C19 (checked under SpecSchedule, YieldEvery standing for the code's 10
\* and BatchSize for its 100).  The run is suspended only between batches
\* or at the head of a dimension, it yields before the first batch of each
\* dimension, and never more than YieldEvery batches start without a yield
\* between them.
C19_YieldSchedule ==
    /\ [](/\ batchesSinceYield <= YieldEvery
          /\ pc = "awaitBatch" =>
                 /\ i = currentBatchSizeOf(sampleSize, batch)
                 /\ Len(samples) = IntMin(sampleSize, (batch + 1) * BatchSize)
          /\ pc = "awaitDimension" =>
                 /\ Len(statistics) = dimIndex
                 /\ DimLoopContinues(dimIndex, dimensions)
          /\ (pc \in {"batchLoop", "sampleLoop"} /\ batch = 0) =>
                 batchesSinceYield <= 1)
    /\ [][SuspendsAtBoundary]_vars
\* C19 witness: a full period of batches has run since the last yield and
\* the run is suspended after the last of them.
C19_Witness ==
    /\ pc = "awaitBatch"
    /\ batchesSinceYield = YieldEvery
    /\ batch = YieldEvery

\* a step leaves what earlier passes stored as it is, and writes the
\* accumulators only inside the pass of the current dimension
FrozenStep ==
    /\ Len(statistics') >= Len(statistics)
    /\ \A k \in 1..Len(statistics) : statistics'[k] = statistics[k]
    /\ DOMAIN distributionSamples \subseteq DOMAIN distributionSamples'
    /\ \A d \in DOMAIN distributionSamples :
          distributionSamples'[d] = distributionSamples[d]
    /\ (\/ samples' # samples
        \/ sumDistances' # sumDistances
        \/ sumSquaredDistances' # sumSquaredDistances) =>
          /\ pc \in {"awaitDimension", "sampleLoop"}
          /\ dimIndex' = dimIndex
          /\ dim \notin DOMAIN distributionSamples
    /\ (data' # data) =>
          /\ data = Null
          /\ data'.statistics = statistics
          /\ data'.distributionSamples = distributionSamples
          /\ statistics' = statistics
          /\ distributionSamples' = distributionSamples

\* C20.  The accumulators of a dimension are written only during its own
\* pass, and a record or a sample sequence that a pass has stored is the
\* same in every later state of the run, the assembled result included.
C20_FrozenAfterPass == [][FrozenStep]_vars
\* C20 witness: the first dimension is stored and the pass of the second has
\* drawn samples that differ from the stored ones.
C20_Witness ==
    /\ pc = "sampleLoop"
    /\ dimIndex = 1
    /\ Len(statistics) = 1
    /\ Len(samples) >= 1
    /\ Len(distributionSamples[dimensions[1]]) >= 1
    /\ samples[1] # distributionSamples[dimensions[1]][1]

\* the centre of bin b of the domain [lo, hi): lo + (b + 0.5) * binWidth
BinCentre(lo, hi, b) ==
    Q(2 * binCount * lo + (2 * b + 1) * (hi - lo), 2 * binCount)

\* the bins built for the samples ss over the domain [lo, hi): binCount
\* bins, bin b centred in its interval and holding the density of the
\* values that fall into [lo + b * width, lo + (b + 1) * width)
IsHistogramOf(h, values, lo, hi) ==
    /\ DOMAIN h = 0..(binCount - 1)
    /\ \A b \in 0..(binCount - 1) :
          LET inBin == {k \in 1..Len(values) :
                          /\ QLeq(Q(binCount * lo + b * (hi - lo), binCount),
                                  values[k])
                          /\ QLess(values[k],
                                   Q(binCount * lo + (b + 1) * (hi - lo),
                                     binCount))}
          IN  /\ h[b].x = BinCentre(lo, hi, b)
              /\ h[b].count = Q(Cardinality(inBin) * binCount,
                                Len(values) * (hi - lo))

\* C21 (checked under SpecHost).  What generateHistogramData returns is a
\* function of the result, the selection and the flag alone: in every
\* rendered view the bins of a selected dimension are the binCount bins of
\* that dimension's retained samples, whatever was rendered or clicked
\* before; and a render leaves the result and the stored samples as they
\* were, the result holding no bins.
C21_HistogramPure ==
    /\ [](view.kind = "charts" =>
            /\ data # Null
            /\ DOMAIN data = {"dimensions", "statistics", "distributionSamples"}
            /\ data.distributionSamples = distributionSamples
            /\ \A d \in DimsOf(view.selectedDimensions) :
                  /\ IsHistogramOf(view.originalHistograms[d],
                         OriginalValues(data.distributionSamples[d]), 0, 2)
                  /\ IsHistogramOf(view.normalizedHistograms[d],
                         NormalizedValues(data.distributionSamples[d]), -2, 4))
    /\ [][view' # view =>
            /\ data' = data
            /\ distributionSamples' = distributionSamples
            /\ statistics' = statistics
            /\ selectedDimensions' = selectedDimensions]_vars
\* C21 witness: a dimension was rendered, taken out of the selection,
\* selected again with another one and rendered again.
C21_Witness ==
    /\ view.kind = "charts"
    /\ view.selectedDimensions = <<1, 2>>
    /\ selectedDimensions = <<1>>
    /\ Len(data.distributionSamples[1]) = MaxN
    /\ \E b \in 0..(binCount - 1) :
          QLess(Int2Q(0), view.normalizedHistograms[1][b].count)

\* C22 (checked under SpecCalls).  No draw of a normal variate, in any of
\* the components, takes the logarithm of 0.
C22_NoLogOfZero ==
    (fnCall.fn = "normalRandom" /\ fnCall.stage = "returned") =>
        /\ fnCall.logArgument # Int2Q(0)
        /\ fnCall.result.kind = "finite"

\* the squared Euclidean norm of a vector
SquaredNorm(vec) == SumSquares(vec)

\* the norm of vec is 1 within tol: (1 - tol)^2 <= |vec|^2 <= (1 + tol)^2
NormIsOneWithin(vec, tol) ==
    /\ QLeq(QMul(QSub(Int2Q(1), tol), QSub(Int2Q(1), tol)), SquaredNorm(vec))
    /\ QLeq(SquaredNorm(vec), QMul(QAdd(Int2Q(1), tol), QAdd(Int2Q(1), tol)))

\* the tolerance of the norm in the model: one step of the rounding of
\* Math.sqrt, as 1e-9 is a bound on the rounding of the doubles
NormTolerance == Q(1, SqrtScale)

C25_NormalizeMonotone ==
    fnCall.fn = "normalize" =>
        \A y \in DistanceGrid :
            LET ny == NormalizeIn(fnCall.component, y, fnCall.dim)
            IN  /\ QLess(fnCall.distance, y) => QLess(fnCall.result, ny)
                /\ QLess(y, fnCall.distance) => QLess(ny, fnCall.result)
                /\ QLeq(fnCall.distance, y) => QLeq(fnCall.result, ny)
\* C25 witness: a distance below 1 has been normalized in the largest
\* dimension, to a value below that of the next distance of the grid.
C25_Witness ==
    /\ fnCall.fn = "normalize"
    /\ fnCall.dim = MaxDim
    /\ fnCall.distance = Q(1, DistanceSteps)
    /\ QLess(fnCall.result,
             NormalizeIn(fnCall.component, Q(2, DistanceSteps), MaxDim))
    /\ QLess(fnCall.result, Int2Q(0))

\* |a - b| <= tol
QWithin(a, b, tol) == QLeq(QSub(a, b), tol) /\ QLeq(QSub(b, a), tol)

\* C26 (checked under Spec).  In every record of the result the normalized
\* mean is (originalMean - 1) * s + 1 with s the scale factor of the
\* dimension, so that an original mean of 1 gives a normalized mean of 1;
\* the normalized variance is s * s times the original one, and the
\* normalized standard deviation is s * originalStd within the rounding of
\* the two roots.
C26_AffineStatistics ==
    data # Null =>
        \A k \in 1..Len(data.statistics) :
            LET record == data.statistics[k]
                s == scalingFactor(record.dimension)
                sums == UnbatchedSums(OriginalValues(
                            data.distributionSamples[record.dimension]))
                mean == QDiv(sums.sum, Int2Q(sums.count))
                variance == QSub(QDiv(sums.sumSquared, Int2Q(sums.count)),
                                 QMul(mean, mean))
            IN  /\ record.originalMean = mean
                /\ record.normalizedMean =
                       QAdd(QMul(QSub(record.originalMean, Int2Q(1)), s),
                            Int2Q(1))
                /\ record.originalMean = Int2Q(1)
                       => record.normalizedMean = Int2Q(1)
                /\ record.originalStd = QSqrt(variance)
                /\ record.normalizedStd = QSqrt(QMul(QMul(s, s), variance))
                /\ QWithin(record.normalizedStd, QMul(s, record.originalStd),
                           QDiv(QAdd(Int2Q(1), s), Int2Q(2 * SqrtScale)))
\* C26 witness: the result holds a record with mean 1 and a spread, and a
\* record with another mean and a spread, one for each scale factor.
C26_Witness ==
    /\ data # Null
    /\ data.statistics[1].originalMean = Int2Q(1)
    /\ data.statistics[1].originalStd # Int2Q(0)
    /\ data.statistics[1].normalizedStd # data.statistics[1].originalStd
    /\ data.statistics[2].originalMean # Int2Q(1)
    /\ data.statistics[2].originalStd # Int2Q(0)
    /\ data.statistics[2].normalizedMean # data.statistics[2].originalMean

\* C27 (checked under SpecFailure).  Whenever the loading state is over a
\* result is there, on the path through setData and on the path through
\* the catch handler, and no render dereferences a null result.
C27_LoadedImpliesData ==
    /\ ~isLoading => data # Null
    /\ view.kind # "error"

\* the dimensions of a selection
Selected(selection) == DimsOf(selection)

\* what a click on dimension d makes of the selection, as the claim has it
ClickSpecified(selection, d) ==
    LET after == SelectionAfterClick(selection, d)
    IN  /\ d \in Selected(selection) =>
              /\ Selected(after) = Selected(selection) \ {d}
              /\ Len(after) = Len(selection) - 1
        /\ (d \notin Selected(selection) /\ Len(selection) = 4) =>
              after = selection
        /\ (d \notin Selected(selection) /\ Len(selection) < 4) =>
              /\ Selected(after) = Selected(selection) \cup {d}
              /\ Len(after) = Len(selection) + 1

\* C28 (checked under SpecSelection, from the selection [2, 32, 128, 512]
\* over the dimension list of each component).  The selection holds at
\* most 4 dimensions in strictly ascending order; every change of it is the
\* effect of one click; a click on a selected dimension removes that
\* dimension alone, and a click on an unselected one while 4 are selected
\* changes nothing.
C28_SelectionInvariant ==
    /\ [](/\ Len(selectedDimensions) <= 4
          /\ \A k \in 1..(Len(selectedDimensions) - 1) :
                selectedDimensions[k] < selectedDimensions[k + 1]
          /\ \A d \in DimsOf(dimensions) :
                ClickSpecified(selectedDimensions, d))
    /\ [][\E d \in DimsOf(dimensions) :
             selectedDimensions' = SelectionAfterClick(selectedDimensions, d)
         ]_selectedDimensions
\* C28 witness: four dimensions are selected, none of them of the initial
\* selection.
C28_Witness ==
    /\ view.kind = "charts"
    /\ selectedDimensions = <<4, 8, 16, 2048>>
    /\ view.selectedDimensions = selectedDimensions

\* C29 (checked under SpecSelection).  With a result set, every selected
\* dimension has a sample sequence in data.distributionSamples, in the
\* initial selection and after every click, for the dimension list of each
\* of the three components; no render reads the samples of a dimension
\* that was not simulated.
C29_SelectedHaveSamples ==
    /\ data # Null
    /\ DimsOf(data.dimensions) \subseteq DOMAIN data.distributionSamples
    /\ DimsOf(selectedDimensions) \subseteq DimsOf(data.dimensions)
    /\ \A d \in DimsOf(selectedDimensions) :
          /\ d \in DOMAIN data.distributionSamples
          /\ Len(data.distributionSamples[d]) >= 1
    /\ view.kind # "error"
\* C29 witness: the formulaic component has rendered a selection that
\* holds the last dimension of its list and one outside the initial
\* selection.
C29_Witness ==
    /\ dimensions = FormulaicDimensions
    /\ view.kind = "charts"
    /\ view.selectedDimensions = <<3, 1024>>

\* C30 (checked under SpecFair).  The run reaches its end, and from some
\* point on the loading state is over for good and the result is set.
C30_RunTerminates ==
    /\ <>(pc = "done")
    /\ <>[](~isLoading /\ data # Null)
\* C30 witness: the run over [2, 1] with the largest sample counts, which
\* awaits a timer inside its batch loops, has ended.
C30_Witness ==
    /\ pc = "done"
    /\ ~isLoading
    /\ dimensions = <<2, 1>>
    /\ \A d \in {1, 2} : Len(data.distributionSamples[d]) = MaxN

====
